---- MODULE Spec2Model ----
(***************************************************************************)
(* Model of the browser-side synchronisation engine of erp-phonetech:      *)
(* ApiService and SyncManager of src/server/public/js/api-service.js.      *)
(*                                                                         *)
(* Two execution contexts (tabs) of one device share localStorage and a    *)
(* BroadcastChannel; each has its own SyncManager and ApiService object.   *)
(* The remote store is the inventory table behind /api/inventory.          *)
(***************************************************************************)
EXTENDS Integers, Sequences, FiniteSets

(* ------------------------------ bounds --------------------------------- *)
\* the number of stimuli of a run: clock ticks, local mutations, changes of the
\* remote inventory, logins, calls of pushToServer and of destroy, requests
\* sent
MaxEvents == 4

\* the number of submissions of one operation a bounded retry would allow
RetryBound == 3

\* concurrent POST /api/inventory/:id/sell requests that are followed
MaxSells == 3

Ctx == {"A", "B"}

(* ------------------------------ values --------------------------------- *)
NULL      == 0 - 1        \* JavaScript null in a numeric field of a record
NoItem    == 0 - 1        \* localStorage.getItem of an absent key
SqlNull   == "null"       \* a NULL column in the JSON of a row
SoldPrice == "5.00"       \* a DECIMAL(10,2) column in the JSON of a row

USE_API == TRUE

IdString == <<"1", "2">>

\* item.id.toString()
IdToString(n) == IdString[n]

\* parseInt(x) || 0 for the decimal string of a non-negative integer or null
ParseIntOr0(v) == IF v = NoItem THEN 0 ELSE v

\* parseFloat of the decimal strings the rows carry
ParseFloat(str) == CASE str = "5.00" -> 5 [] str = "0.00" -> 0

\* one element of inventory.map(item => ({...})) in pullFromServer: the id
\* becomes a string, sold_price a number, or null when it is falsy
MapItem(item) ==
    [id     |-> IdToString(item.id),
     status |-> item.status,
     sell   |-> IF item.sold_price = SqlNull
                THEN NULL ELSE ParseFloat(item.sold_price)]

\* inventory.map(...)
MapInventory(inv) == [i \in 1..Len(inv) |-> MapItem(inv[i])]

\* JSON.stringify of a list of local records: structural, order-sensitive
JSONstringify(recs) == recs

VARIABLES
    nEvents,            \* stimuli so far
    now,                \* Date.now()
    hasBC,              \* 'BroadcastChannel' in window
    server,             \* rows of the remote inventory table
    sells,              \* POST /:id/sell requests: where each handler stands
    transactions,       \* rows of the remote transactions table: type 'SELL'
    versionKey,         \* localStorage[VERSION_KEY]
    store,              \* localStorage[STORAGE_KEY] (the inventory in it)
    channel,            \* SyncManager.channel: "none" or "open"
    syncInterval,       \* the setInterval timer is armed
    initialPull,        \* the setTimeout(…, 1000) of startPeriodicSync is pending
    token,              \* ApiService.token is set
    loggedOut,          \* Auth.logout() was called since the last login
    lastSyncTimestamp,  \* SyncManager.lastSyncTimestamp
    isSyncing,          \* SyncManager.isSyncing
    records,            \* State._state.inventory of the tab
    fetches,            \* GET /api/inventory requests awaited by pullFromServer
    lastPull,           \* history: how the tab's last pull ended
    lastCommit,         \* history: the marker of the tab's last local mutation
    inbox,              \* BroadcastChannel messages not yet dispatched
    storageEvt,         \* 'storage' events for VERSION_KEY not yet dispatched
    pendingChanges,     \* SyncManager.pendingChanges
    requests,           \* POST/PUT requests awaited by pushToServer
    drains,             \* calls of retryPendingChanges suspended in their loop
    handed,             \* history: ids of the operations given to pushToServer
    submitted,          \* history: ids of the operations sent, in order
    confirmed,          \* history: ids of the operations the server accepted
    reported,           \* history: ids whose caller got null with nothing queued
    lastDrain           \* history: the last finished call of retryPendingChanges

envVars  == <<now, hasBC, server, sells, transactions>>
diskVars == <<versionKey, store>>
tabVars  == <<channel, syncInterval, initialPull, token, loggedOut,
              lastSyncTimestamp, isSyncing, records, fetches, lastPull,
              lastCommit>>
busVars  == <<inbox, storageEvt>>
syncVars == <<nEvents, envVars, diskVars, tabVars, busVars>>

pushVars == <<pendingChanges, requests, drains, handed, submitted, confirmed,
              reported, lastDrain>>

vars == <<syncVars, pushVars>>

(* ------------------------------ init ----------------------------------- *)
NoDrain == [done |-> FALSE, orig |-> <<>>, sent |-> <<>>, allOk |-> TRUE,
            hadToken |-> TRUE, queueAtEnd |-> <<>>]

\* the requests followed, the ids they name (no row has the second id at the
\* start) and the prices they carry
SellReqs   == 1..MaxSells
SellIds    == {1, 2}
SellPrices == {SoldPrice}

\* db.getOne found no row
NoRow == [id |-> 0, status |-> "none", sold_price |-> SqlNull]

\* a request that has not arrived yet
NoSell == [pc |-> "idle", id |-> 0, sell_price |-> SqlNull, current |-> NoRow]

\* SyncManager.init: the fields a tab has after init() ran at time t with
\* v found under VERSION_KEY
initChannel      == IF hasBC THEN "open" ELSE "none"
initVersionKey(t, v) == IF v = NoItem THEN t ELSE v

\* both tabs have loaded the (empty) persisted state and run
\* SyncManager.init() at time 1; the user is logged in
Init ==
    /\ nEvents = 0
    /\ now = 1
    /\ hasBC \in BOOLEAN
    /\ server = <<[id |-> 1, status |-> "available", sold_price |-> SqlNull]>>
    /\ sells = [r \in SellReqs |-> NoSell]
    /\ transactions = <<>>
    /\ versionKey = initVersionKey(now, NoItem)
    /\ store = <<>>
    /\ channel = [c \in Ctx |-> initChannel]
    /\ syncInterval = [c \in Ctx |-> USE_API]
    /\ initialPull = [c \in Ctx |-> USE_API]
    /\ token = [c \in Ctx |-> TRUE]
    /\ loggedOut = [c \in Ctx |-> FALSE]
    /\ lastSyncTimestamp = [c \in Ctx |-> ParseIntOr0(versionKey)]
    /\ isSyncing = [c \in Ctx |-> FALSE]
    /\ records = [c \in Ctx |-> store]
    /\ fetches = [c \in Ctx |-> <<>>]
    /\ lastPull = [c \in Ctx |-> "none"]
    /\ lastCommit = [c \in Ctx |-> 0]
    /\ inbox = [c \in Ctx |-> <<>>]
    /\ storageEvt = [c \in Ctx |-> <<>>]
    /\ pendingChanges = [c \in Ctx |-> <<>>]
    /\ requests = [c \in Ctx |-> {}]
    /\ drains = [c \in Ctx |-> {}]
    /\ handed = [c \in Ctx |-> {}]
    /\ submitted = [c \in Ctx |-> <<>>]
    /\ confirmed = [c \in Ctx |-> {}]
    /\ reported = [c \in Ctx |-> {}]
    /\ lastDrain = [c \in Ctx |-> NoDrain]

(* --------------------------- environment ------------------------------- *)
\* the wall clock advances; two calls of Date.now() may return the same value
Event ==
    /\ nEvents < MaxEvents
    /\ nEvents' = nEvents + 1

Tick ==
    /\ Event
    /\ now' = now + 1
    /\ UNCHANGED pushVars
    /\ UNCHANGED <<hasBC, server, sells, transactions, diskVars, tabVars,
                   busVars>>

\* another device changes the remote inventory through the routes of
\* routes/tickets.js: POST / (create), PUT /:id (status only), POST /:id/sell
RemoteChange ==
    /\ Event
    /\ \/ /\ Len(server) < Len(IdString)
          /\ server' = Append(server, [id |-> Len(server) + 1,
                                       status |-> "available",
                                       sold_price |-> SqlNull])
       \/ \E i \in 1..Len(server) :
             /\ server[i].status = "available"
             /\ \/ server' = [server EXCEPT ![i].status = "sold"]
                \/ server' = [server EXCEPT ![i].status = "sold",
                                            ![i].sold_price = SoldPrice]
    /\ UNCHANGED pushVars
    /\ UNCHANGED <<now, hasBC, sells, transactions, diskVars, tabVars,
                   busVars>>

\* what ApiService.get('/api/inventory') can settle with: the rows, a body
\* that is not an array, 'Failed to fetch', a 401, another error status
GetResponses ==
    {[kind |-> "ok", body |-> server],
     [kind |-> "malformed", body |-> <<>>],
     [kind |-> "network", body |-> <<>>],
     [kind |-> "401", body |-> <<>>],
     [kind |-> "error", body |-> <<>>]}

\* ApiService.request: what the caller of request() gets for a response: the
\* parsed body of a 2xx, null on 'Failed to fetch', an exception otherwise
requestOutcome(kind) ==
    CASE kind \in {"ok", "malformed"} -> "json"
      [] kind = "network"             -> "null"
      [] kind = "401"                 -> "throw"
      [] OTHER                        -> "throw"

\* mutant: the 401 branch does not clear the token
tokenAfter_Kept(held, kind) == held

\* ApiService.request: the 401 branch clears the token
tokenAfter(held, kind) == IF kind = "401" THEN FALSE ELSE held

\* ApiService.request: the 401 branch calls Auth.logout()
loggedOutAfter(was, kind) == was \/ kind = "401"

\* Auth (not part of the engine) obtains a credential: ApiService.setToken
setToken(c) ==
    /\ ~token[c]
    /\ Event
    /\ token' = [token EXCEPT ![c] = TRUE]
    /\ loggedOut' = [loggedOut EXCEPT ![c] = FALSE]
    /\ UNCHANGED <<envVars, diskVars, busVars, channel, syncInterval,
                   initialPull, lastSyncTimestamp, isSyncing, records, fetches,
                   lastPull, lastCommit>>
    /\ UNCHANGED pushVars

(* ---------------------------- SyncManager ------------------------------ *)
\* App.refresh(): the tab reloads its state from localStorage
AppRefresh(c) == records' = [records EXCEPT ![c] = store]

\* mutant: the ChangeEvent carries the version but the tab's own
\* lastSyncTimestamp is not moved
broadcastChange_KeepsLast(c, action) ==
    LET version == now IN
    /\ versionKey' = version
    /\ UNCHANGED lastSyncTimestamp
    /\ storageEvt' = [d \in Ctx |->
           IF d # c /\ version # versionKey
           THEN Append(storageEvt[d], version) ELSE storageEvt[d]]
    /\ inbox' = [d \in Ctx |->
           IF d # c /\ channel[c] = "open" /\ channel[d] = "open"
           THEN Append(inbox[d], [action |-> action, version |-> version])
           ELSE inbox[d]]

\* mutant: the ChangeEvent is posted but VERSION_KEY is not written
broadcastChange_NoMarker(c, action) ==
    LET version == now IN
    /\ UNCHANGED <<versionKey, storageEvt>>
    /\ lastSyncTimestamp' = [lastSyncTimestamp EXCEPT ![c] = version]
    /\ inbox' = [d \in Ctx |->
           IF d # c /\ channel[c] = "open" /\ channel[d] = "open"
           THEN Append(inbox[d], [action |-> action, version |-> version])
           ELSE inbox[d]]

\* SyncManager.broadcastChange: stamps Date.now(), writes VERSION_KEY (siblings
\* get a 'storage' event when the value changed) and posts the ChangeEvent
broadcastChange(c, action) ==
    LET version == now IN
    /\ versionKey' = version
    /\ lastSyncTimestamp' = [lastSyncTimestamp EXCEPT ![c] = version]
    /\ storageEvt' = [d \in Ctx |->
           IF d # c /\ version # versionKey
           THEN Append(storageEvt[d], version) ELSE storageEvt[d]]
    /\ inbox' = [d \in Ctx |->
           IF d # c /\ channel[c] = "open" /\ channel[d] = "open"
           THEN Append(inbox[d], [action |-> action, version |-> version])
           ELSE inbox[d]]

\* mutant: the handlers take any version that differs from the last one
IsNewer_AnyOther(version, last) == version # last

\* mutant: the comparison is the wrong way round
IsNewer_Older(version, last) == version < last

\* mutant: an equal version counts as newer
IsNewer_OrEqual(version, last) == version >= last

\* the version test of handleSyncMessage, handleStorageChange and
\* checkForUpdates
IsNewer(version, last) == version > last

\* SyncManager.handleSyncMessage, for the oldest undelivered message
handleSyncMessage(c) ==
    /\ inbox[c] # <<>>
    /\ inbox' = [inbox EXCEPT ![c] = Tail(inbox[c])]
    /\ LET version == Head(inbox[c]).version IN
       IF IsNewer(version, lastSyncTimestamp[c])
       THEN /\ lastSyncTimestamp' = [lastSyncTimestamp EXCEPT ![c] = version]
            /\ AppRefresh(c)
       ELSE UNCHANGED <<lastSyncTimestamp, records>>
    /\ UNCHANGED nEvents
    /\ UNCHANGED pushVars
    /\ UNCHANGED <<envVars, diskVars, storageEvt, channel,
                   syncInterval, initialPull, token, loggedOut, isSyncing,
                   fetches, lastPull, lastCommit>>

\* SyncManager.handleStorageChange, for the oldest undelivered VERSION_KEY
\* event (events for STORAGE_KEY pass the listener and change nothing)
handleStorageChange(c) ==
    /\ storageEvt[c] # <<>>
    /\ storageEvt' = [storageEvt EXCEPT ![c] = Tail(storageEvt[c])]
    /\ LET newVersion == ParseIntOr0(Head(storageEvt[c])) IN
       IF IsNewer(newVersion, lastSyncTimestamp[c])
       THEN /\ lastSyncTimestamp' =
                   [lastSyncTimestamp EXCEPT ![c] = newVersion]
            /\ AppRefresh(c)
       ELSE UNCHANGED <<lastSyncTimestamp, records>>
    /\ UNCHANGED nEvents
    /\ UNCHANGED pushVars
    /\ UNCHANGED <<envVars, diskVars, inbox, channel,
                   syncInterval, initialPull, token, loggedOut, isSyncing,
                   fetches, lastPull, lastCommit>>

\* mutant: the single-flight test is missing from the guard
pullGuard_NoSingleFlight(c) == ~USE_API \/ ~token[c]

\* SyncManager.pullFromServer: the guard of its first line
pullGuard(c) == ~USE_API \/ ~token[c] \/ isSyncing[c]

\* SyncManager.pullFromServer up to its await: isSyncing = true and the GET
\* request (issued, mutated and stopped are history: when the request was
\* sent, and whether the tab has committed a local mutation or called
\* destroy() since)
pullIssue(c) ==
    /\ isSyncing' = [isSyncing EXCEPT ![c] = TRUE]
    /\ fetches' = [fetches EXCEPT
           ![c] = Append(@, [issued |-> now, mutated |-> FALSE,
                             stopped |-> FALSE])]

\* SyncManager.pullFromServer, called: it returns at once or sends the GET
pullFromServer(c) ==
    IF pullGuard(c)
    THEN UNCHANGED <<isSyncing, fetches, nEvents>>
    ELSE Event /\ pullIssue(c)

\* the setInterval callback of startPeriodicSync
TimerTick(c) ==
    /\ syncInterval[c]
    /\ pullFromServer(c)
    /\ UNCHANGED <<lastPull, lastCommit>>
    /\ UNCHANGED pushVars
    /\ UNCHANGED <<envVars, diskVars, busVars, channel,
                   syncInterval, initialPull, token, loggedOut,
                   lastSyncTimestamp, records>>

\* the setTimeout callback of startPeriodicSync
InitialPull(c) ==
    /\ initialPull[c]
    /\ initialPull' = [initialPull EXCEPT ![c] = FALSE]
    /\ pullFromServer(c)
    /\ UNCHANGED <<lastPull, lastCommit>>
    /\ UNCHANGED pushVars
    /\ UNCHANGED <<envVars, diskVars, busVars, channel,
                   syncInterval, token, loggedOut, lastSyncTimestamp, records>>

\* an explicit call of SyncManager.pullFromServer()
ExplicitPull(c) ==
    /\ pullFromServer(c)
    /\ UNCHANGED <<lastPull, lastCommit>>
    /\ UNCHANGED pushVars
    /\ UNCHANGED <<envVars, diskVars, busVars, channel,
                   syncInterval, initialPull, token, loggedOut,
                   lastSyncTimestamp, records>>

\* SyncManager.checkForUpdates, run by the visibilitychange listener
checkForUpdates(c) ==
    /\ LET currentVersion == ParseIntOr0(versionKey) IN
       IF IsNewer(currentVersion, lastSyncTimestamp[c])
       THEN /\ lastSyncTimestamp' =
                   [lastSyncTimestamp EXCEPT ![c] = currentVersion]
            /\ AppRefresh(c)
       ELSE UNCHANGED <<lastSyncTimestamp, records>>
    /\ IF USE_API /\ token[c]
       THEN pullFromServer(c)
       ELSE UNCHANGED <<isSyncing, fetches, nEvents>>
    /\ UNCHANGED <<lastPull, lastCommit>>
    /\ UNCHANGED pushVars
    /\ UNCHANGED <<envVars, diskVars, busVars, channel,
                   syncInterval, initialPull, token, loggedOut>>

\* mutant: the comparison is missing and every fetched array is applied
Differs_Always(state_inventory, localInventory) == TRUE

\* the reconciliation test of pullFromServer
Differs(state_inventory, localInventory) ==
    JSONstringify(state_inventory) # JSONstringify(localInventory)

\* mutant: the Array.isArray test is missing
Applicable_AnyJson(r) == requestOutcome(r.kind) = "json"

\* pullFromServer: request() returned and 'inventory && Array.isArray(inventory)'
Applicable(r) == requestOutcome(r.kind) = "json" /\ r.kind # "malformed"

\* mutant: isSyncing is reset at the end of the try block, not in a finally
isSyncingAfterPull_NoFinally(kind) == requestOutcome(kind) = "throw"

\* pullFromServer: finally { this.isSyncing = false }
isSyncingAfterPull(kind) == FALSE

\* SyncManager.pullFromServer from the await on, when ApiService.request
\* settles the i-th open request with r
pullResume(c, i, r) ==
    LET localInventory == MapInventory(r.body) IN
    /\ fetches' = [fetches EXCEPT ![c] =
           SubSeq(@, 1, i - 1) \o SubSeq(@, i + 1, Len(@))]
    /\ isSyncing' = [isSyncing EXCEPT ![c] = isSyncingAfterPull(r.kind)]
    /\ lastPull' = [lastPull EXCEPT ![c] =
           IF r.kind # "ok" THEN "failed"
           ELSE IF localInventory = records[c] THEN "same" ELSE "changed"]
    /\ token' = [token EXCEPT ![c] = tokenAfter(@, r.kind)]
    /\ loggedOut' = [loggedOut EXCEPT ![c] = loggedOutAfter(@, r.kind)]
    /\ IF Applicable(r) /\ Differs(records[c], localInventory)
       THEN /\ records' = [records EXCEPT ![c] = localInventory]
            /\ store' = localInventory
            /\ broadcastChange(c, "inventory_sync")
       ELSE UNCHANGED <<records, store, versionKey, lastSyncTimestamp,
                        busVars>>
    /\ UNCHANGED <<nEvents, envVars, channel, syncInterval, initialPull,
                   lastCommit>>
    /\ UNCHANGED pushVars

PullComplete(c) ==
    \E i \in 1..Len(fetches[c]) : \E r \in GetResponses : pullResume(c, i, r)

(* ---------------------- a failing localStorage ------------------------- *)
\* mutant: the snapshot is saved before the in-memory state is assigned
ApplySteps_SaveFirst == <<"snapshot", "memory", "marker", "last", "post">>

\* pullFromServer and broadcastChange: the statements of the accepted branch
\* in program order: state.inventory / State._state are assigned, STORAGE_KEY
\* is written, VERSION_KEY is written, lastSyncTimestamp is set, the
\* ChangeEvent is posted
ApplySteps == <<"memory", "snapshot", "marker", "last", "post">>

\* the calls of localStorage.setItem in the accepted branch, which throw when
\* the quota is exceeded or the storage is unavailable
WriteSteps == {"snapshot", "marker"}

StepIndex(s) == CHOOSE i \in 1..Len(ApplySteps) : ApplySteps[i] = s

\* statement s ran before the statement failsAt threw
Reached(failsAt, s) == StepIndex(s) < StepIndex(failsAt)

\* SyncManager.pullFromServer from the await on, when the GET brought rows
\* that differ and localStorage.setItem throws at failsAt: the statements
\* before it have run, the catch block logs, the finally block runs
pullResumeUnsaved(c, i, failsAt) ==
    LET localInventory == MapInventory(server) IN
    /\ Differs(records[c], localInventory)
    /\ fetches' = [fetches EXCEPT ![c] =
           SubSeq(@, 1, i - 1) \o SubSeq(@, i + 1, Len(@))]
    /\ isSyncing' = [isSyncing EXCEPT ![c] = isSyncingAfterPull("error")]
    /\ lastPull' = [lastPull EXCEPT ![c] = "unsaved"]
    /\ records' = [records EXCEPT
           ![c] = IF Reached(failsAt, "memory") THEN localInventory ELSE @]
    /\ store' = IF Reached(failsAt, "snapshot") THEN localInventory ELSE store
    /\ IF Reached(failsAt, "marker")
       THEN /\ versionKey' = now
            /\ storageEvt' = [d \in Ctx |->
                   IF d # c /\ now # versionKey
                   THEN Append(storageEvt[d], now) ELSE storageEvt[d]]
       ELSE UNCHANGED <<versionKey, storageEvt>>
    /\ lastSyncTimestamp' = [lastSyncTimestamp EXCEPT
           ![c] = IF Reached(failsAt, "last") THEN now ELSE @]
    /\ IF Reached(failsAt, "post")
       THEN inbox' = [d \in Ctx |->
                IF d # c /\ channel[c] = "open" /\ channel[d] = "open"
                THEN Append(inbox[d], [action |-> "inventory_sync",
                                       version |-> now])
                ELSE inbox[d]]
       ELSE UNCHANGED inbox
    /\ UNCHANGED <<nEvents, envVars, channel, syncInterval, initialPull,
                   token, loggedOut, lastCommit>>
    /\ UNCHANGED pushVars

PullUnsaved(c) ==
    \E i \in 1..Len(fetches[c]) : \E failsAt \in WriteSteps :
        pullResumeUnsaved(c, i, failsAt)

\* periodic sync of two tabs whose localStorage may refuse a write
NextDegraded ==
    \/ Tick
    \/ RemoteChange
    \/ \E c \in Ctx : TimerTick(c)
    \/ \E c \in Ctx : PullComplete(c)
    \/ \E c \in Ctx : PullUnsaved(c)
    \/ \E c \in Ctx : handleSyncMessage(c)
    \/ \E c \in Ctx : handleStorageChange(c)

SpecDegraded == Init /\ [][NextDegraded]_vars

(* ------------------------- local mutations ----------------------------- *)
\* the records after the application mutates its inventory
Mutations(recs) ==
    (IF \A i \in 1..Len(recs) : recs[i].id # "new"
     THEN {Append(recs, [id |-> "new", status |-> "available", sell |-> NULL])}
     ELSE {})
    \cup {[recs EXCEPT ![i].status = "sold",
                       ![i].sell = ParseFloat(SoldPrice)] :
             i \in {j \in 1..Len(recs) : recs[j].status = "available"}}

\* a local mutation is committed: the state is changed and saved, and the
\* change is stamped and broadcast
LocalCommit(c) ==
    /\ Event
    /\ \E recs \in Mutations(records[c]) :
          /\ records' = [records EXCEPT ![c] = recs]
          /\ store' = recs
    /\ broadcastChange(c, "inventory_update")
    /\ lastCommit' = [lastCommit EXCEPT ![c] = now]
    /\ fetches' = [fetches EXCEPT ![c] =
           [i \in 1..Len(@) |-> [@[i] EXCEPT !.mutated = TRUE]]]
    /\ UNCHANGED pushVars
    /\ UNCHANGED <<envVars, channel, syncInterval, initialPull,
                   token, loggedOut, isSyncing, lastPull>>

(* ------------------------------ teardown ------------------------------- *)
\* SyncManager.destroy: the channel is closed (a closed channel dispatches no
\* message and postMessage on it throws) and the interval is cleared; the
\* storage and visibility listeners and the setTimeout of startPeriodicSync
\* stay. A second call changes nothing.
destroy(c) ==
    /\ syncInterval[c]
    /\ Event
    /\ channel' = [channel EXCEPT ![c] = IF @ = "open" THEN "closed" ELSE @]
    /\ syncInterval' = [syncInterval EXCEPT ![c] = FALSE]
    /\ inbox' = [inbox EXCEPT ![c] = IF channel[c] = "open" THEN <<>> ELSE @]
    /\ fetches' = [fetches EXCEPT ![c] =
           [i \in 1..Len(@) |-> [@[i] EXCEPT !.stopped = TRUE]]]
    /\ UNCHANGED pushVars
    /\ UNCHANGED <<envVars, diskVars, storageEvt, initialPull, token,
                   loggedOut, lastSyncTimestamp, isSyncing, records, lastPull,
                   lastCommit>>

(* ------------------------------ push path ------------------------------ *)
\* what the application hands to pushToServer next: an entity is created,
\* then updated, then sold
NextOps(c) ==
    IF handed[c] = {} THEN {"add"}
    ELSE IF Cardinality(handed[c]) = 1 THEN {"update"} ELSE {"sell"}

\* how a POST or PUT can settle: 2xx, 'Failed to fetch', 401, another status
\* (or an error with another message)
PushResponses == {"ok", "network", "401", "rejected"}

\* SyncManager.pushToServer, the catch block: the queue after the request of
\* change settled with outcome
queueAfterPush(queue, change, outcome) ==
    IF outcome = "throw"
    THEN Append(queue, [action |-> change.action, itemData |-> change.itemData,
                        timestamp |-> now, id |-> change.id])
    ELSE queue

\* SyncManager.pushToServer, the guard: the call returns null at once
pushSkipped(held) == ~USE_API \/ ~held

\* mutant: only the entry about to be sent is taken off the queue
queueAfterCopy_DropsHead(changes) == Tail(changes)

\* mutant: the queue is not reset after the copy is taken
queueAfterCopy_Keeps(changes) == changes

\* SyncManager.retryPendingChanges: this.pendingChanges after the copy is taken
queueAfterCopy(changes) == <<>>

\* SyncManager.retryPendingChanges: the order in which the loop takes the copy
loopOrder(changes) == changes

AsChange(entry) ==
    [action |-> entry.action, itemData |-> entry.itemData, id |-> entry.id]

\* the application calls SyncManager.pushToServer(action, itemData)
Push(c) ==
    \E action \in NextOps(c) :
        LET change == [action |-> action, itemData |-> "item",
                       id |-> nEvents + 1]
        IN
        /\ Event
        /\ handed' = [handed EXCEPT ![c] = @ \cup {change.id}]
        /\ IF pushSkipped(token[c])
           THEN /\ reported' = [reported EXCEPT ![c] = @ \cup {change.id}]
                /\ UNCHANGED <<requests, submitted>>
           ELSE /\ requests' = [requests EXCEPT
                       ![c] = @ \cup {[change |-> change, by |-> 0]}]
                /\ submitted' = [submitted EXCEPT ![c] = Append(@, change.id)]
                /\ UNCHANGED reported
        /\ UNCHANGED <<envVars, diskVars, tabVars, busVars, pendingChanges,
                       drains, confirmed, lastDrain>>

\* the loop of retryPendingChanges from drain record d on, in a tab whose
\* token is held or not and whose queue is queue: the loop sends the next
\* change and suspends, or runs to its end when pushToServer returns at once
\* [the tab's requests, drains, lastDrain, submitted after the loop ran on]
LoopOn(c, d, held, queue, reqs, others) ==
    IF d.rest = <<>> \/ pushSkipped(held)
    THEN [requests  |-> reqs,
          drains    |-> others,
          sent      |-> <<>>,
          lastDrain |-> [done |-> TRUE, orig |-> d.orig, sent |-> d.sent,
                         allOk |-> d.allOk,
                         hadToken |-> d.hadToken /\ d.rest = <<>>,
                         queueAtEnd |-> queue]]
    ELSE [requests  |-> reqs \cup {[change |-> AsChange(Head(d.rest)),
                                    by |-> d.k]},
          drains    |-> others \cup {[d EXCEPT !.rest = Tail(d.rest),
                                               !.sent = Append(d.sent, Head(d.rest).id)]},
          sent      |-> <<Head(d.rest).id>>,
          lastDrain |-> lastDrain[c]]

\* SyncManager.retryPendingChanges up to its first await
retryPendingChanges(c) ==
    IF Len(pendingChanges[c]) = 0
    THEN UNCHANGED <<nEvents, pendingChanges, requests, drains, submitted,
                     lastDrain>>
    ELSE LET changes == loopOrder(pendingChanges[c])
             d == [k |-> nEvents + 1, rest |-> changes,
                   orig |-> pendingChanges[c], sent |-> <<>>,
                   allOk |-> TRUE, hadToken |-> TRUE]
             after == LoopOn(c, d, token[c], queueAfterCopy(changes),
                             requests[c], drains[c])
         IN
         /\ pendingChanges' = [pendingChanges EXCEPT
                ![c] = queueAfterCopy(changes)]
         /\ IF after.sent = <<>> THEN UNCHANGED nEvents ELSE Event
         /\ requests' = [requests EXCEPT ![c] = after.requests]
         /\ drains' = [drains EXCEPT ![c] = after.drains]
         /\ submitted' = [submitted EXCEPT ![c] = @ \o after.sent]
         /\ lastDrain' = [lastDrain EXCEPT ![c] = after.lastDrain]

Drain(c) ==
    /\ retryPendingChanges(c)
    /\ UNCHANGED <<envVars, diskVars, tabVars, busVars, handed, confirmed,
                   reported>>

\* a request of pushToServer settles with kind: ApiService.request returns or
\* throws, pushToServer returns, and a suspended retryPendingChanges goes on
PushSettle(c, q, kind) ==
    LET outcome == requestOutcome(kind)
        held    == tokenAfter(token[c], kind)
        queue   == queueAfterPush(pendingChanges[c], q.change, outcome)
        reqs    == requests[c] \ {q}
        \* every suspended drain of the tab has seen a failure
        seen    == {[d EXCEPT !.allOk = d.allOk /\ kind = "ok"] : d \in drains[c]}
        mine    == {d \in seen : d.k = q.by}
        after   == IF mine = {}
                   THEN [requests |-> reqs, drains |-> seen, sent |-> <<>>,
                         lastDrain |-> lastDrain[c]]
                   ELSE LET d == CHOOSE x \in mine : TRUE
                        IN LoopOn(c, d, held, queue, reqs, seen \ {d})
    IN
    /\ token' = [token EXCEPT ![c] = held]
    /\ loggedOut' = [loggedOut EXCEPT ![c] = loggedOutAfter(@, kind)]
    /\ pendingChanges' = [pendingChanges EXCEPT ![c] = queue]
    /\ confirmed' = [confirmed EXCEPT
           ![c] = IF outcome = "json" THEN @ \cup {q.change.id} ELSE @]
    /\ reported' = [reported EXCEPT
           ![c] = IF q.by = 0 /\ outcome = "null"
                  THEN @ \cup {q.change.id} ELSE @]
    /\ IF after.sent = <<>> THEN UNCHANGED nEvents ELSE Event
    /\ requests' = [requests EXCEPT ![c] = after.requests]
    /\ drains' = [drains EXCEPT ![c] = after.drains]
    /\ submitted' = [submitted EXCEPT ![c] = @ \o after.sent]
    /\ lastDrain' = [lastDrain EXCEPT ![c] = after.lastDrain]
    /\ UNCHANGED <<envVars, diskVars, busVars, channel, syncInterval,
                   initialPull, lastSyncTimestamp, isSyncing, records, fetches,
                   lastPull, lastCommit, handed>>

PushComplete(c) ==
    \E q \in requests[c] : \E kind \in PushResponses : PushSettle(c, q, kind)

\* the push path of one tab: the tabs share nothing on this path
Pusher == {"A"}

NextPush ==
    \/ \E c \in Pusher : setToken(c)
    \/ \E c \in Pusher : Push(c)
    \/ \E c \in Pusher : Drain(c)
    \/ \E c \in Pusher : PushComplete(c)

SpecPush == Init /\ [][NextPush]_vars

\* every request path of one tab: pulls, pushes, drains and logins
NextAuth ==
    \/ \E c \in Pusher : setToken(c)
    \/ \E c \in Pusher : TimerTick(c)
    \/ \E c \in Pusher : checkForUpdates(c)
    \/ \E c \in Pusher : PullComplete(c)
    \/ \E c \in Pusher : Push(c)
    \/ \E c \in Pusher : Drain(c)
    \/ \E c \in Pusher : PushComplete(c)

SpecAuth == Init /\ [][NextAuth]_vars

\* one tab that mutates its inventory, pushes the mutations and pulls
NextOptimistic ==
    \/ \E c \in Pusher : LocalCommit(c)
    \/ \E c \in Pusher : Push(c)
    \/ \E c \in Pusher : PushComplete(c)
    \/ \E c \in Pusher : TimerTick(c)
    \/ \E c \in Pusher : PullComplete(c)

SpecOptimistic == Init /\ [][NextOptimistic]_vars

\* the queue of a tab two of whose operations failed with an error status:
\* the entries the catch block of pushToServer pushed, oldest first
QueuedEarlier ==
    <<[action |-> "add", itemData |-> "item", timestamp |-> 1, id |-> 0 - 2],
      [action |-> "update", itemData |-> "item", timestamp |-> 1,
       id |-> 0 - 1]>>

\* the tab of Pusher after init() and these two failed calls of pushToServer
InitQueued ==
    /\ nEvents = 0
    /\ now = 1
    /\ hasBC \in BOOLEAN
    /\ server = <<[id |-> 1, status |-> "available", sold_price |-> SqlNull]>>
    /\ sells = [r \in SellReqs |-> NoSell]
    /\ transactions = <<>>
    /\ versionKey = initVersionKey(now, NoItem)
    /\ store = <<>>
    /\ channel = [c \in Ctx |-> initChannel]
    /\ syncInterval = [c \in Ctx |-> USE_API]
    /\ initialPull = [c \in Ctx |-> USE_API]
    /\ token = [c \in Ctx |-> TRUE]
    /\ loggedOut = [c \in Ctx |-> FALSE]
    /\ lastSyncTimestamp = [c \in Ctx |-> ParseIntOr0(versionKey)]
    /\ isSyncing = [c \in Ctx |-> FALSE]
    /\ records = [c \in Ctx |-> store]
    /\ fetches = [c \in Ctx |-> <<>>]
    /\ lastPull = [c \in Ctx |-> "none"]
    /\ lastCommit = [c \in Ctx |-> 0]
    /\ inbox = [c \in Ctx |-> <<>>]
    /\ storageEvt = [c \in Ctx |-> <<>>]
    /\ pendingChanges = [c \in Ctx |->
           IF c \in Pusher THEN QueuedEarlier ELSE <<>>]
    /\ requests = [c \in Ctx |-> {}]
    /\ drains = [c \in Ctx |-> {}]
    /\ handed = [c \in Ctx |->
           IF c \in Pusher
           THEN {QueuedEarlier[i].id : i \in 1..Len(QueuedEarlier)}
           ELSE {}]
    /\ submitted = [c \in Ctx |->
           IF c \in Pusher
           THEN [i \in 1..Len(QueuedEarlier) |-> QueuedEarlier[i].id]
           ELSE <<>>]
    /\ confirmed = [c \in Ctx |-> {}]
    /\ reported = [c \in Ctx |-> {}]
    /\ lastDrain = [c \in Ctx |-> NoDrain]

\* the push path of the tab from there on
SpecRequeue == InitQueued /\ [][NextPush]_vars

(* --------------------- POST /api/inventory/:id/sell -------------------- *)
\* db.getOne('SELECT * FROM inventory WHERE id = $1'): the row or null
RowOf(id) == IF id \in 1..Len(server) THEN server[id] ELSE NoRow

\* the variables no step of the route touches
clientVars == <<nEvents, now, hasBC, diskVars, tabVars, busVars>>

\* the handler up to its first await settles: the SELECT failed (500), found
\* no available row (400), or found one and the handler goes on
SellSelect(r) ==
    /\ sells[r].pc = "idle"
    /\ \E id \in SellIds : \E price \in SellPrices : \E ok \in BOOLEAN :
          LET current == RowOf(id) IN
          sells' = [sells EXCEPT ![r] =
              [pc |-> IF ~ok THEN "500"
                      ELSE IF current = NoRow \/ current.status # "available"
                           THEN "400" ELSE "selected",
               id |-> id, sell_price |-> price,
               current |-> IF ok THEN current ELSE NoRow]]
    /\ UNCHANGED <<server, transactions, clientVars>>
    /\ UNCHANGED pushVars

\* UPDATE inventory SET status = 'sold', sold_price = $1, ... WHERE id = $5
SellUpdate(r) ==
    /\ sells[r].pc = "selected"
    /\ \E ok \in BOOLEAN :
          IF ok
          THEN /\ server' = [server EXCEPT
                      ![sells[r].id].status = "sold",
                      ![sells[r].id].sold_price = sells[r].sell_price]
               /\ sells' = [sells EXCEPT ![r].pc = "updated"]
          ELSE /\ sells' = [sells EXCEPT ![r].pc = "500"]
               /\ UNCHANGED server
    /\ UNCHANGED <<transactions, clientVars>>
    /\ UNCHANGED pushVars

\* INSERT INTO transactions (type, amount, ..., item_id, ...) VALUES ('SELL', ...)
SellInsert(r) ==
    /\ sells[r].pc = "updated"
    /\ \E ok \in BOOLEAN :
          IF ok
          THEN /\ transactions' = Append(transactions,
                      [type |-> "SELL", amount |-> sells[r].sell_price,
                       item_id |-> sells[r].id, created_by |-> r])
               /\ sells' = [sells EXCEPT ![r].pc = "inserted"]
          ELSE /\ sells' = [sells EXCEPT ![r].pc = "500"]
               /\ UNCHANGED transactions
    /\ UNCHANGED <<server, clientVars>>
    /\ UNCHANGED pushVars

\* db.audit(...) and res.json(item), or the catch block when the audit failed
SellRespond(r) ==
    /\ sells[r].pc = "inserted"
    /\ \E ok \in BOOLEAN :
          sells' = [sells EXCEPT ![r].pc = IF ok THEN "200" ELSE "500"]
    /\ UNCHANGED <<server, transactions, clientVars>>
    /\ UNCHANGED pushVars

NextSell ==
    \/ \E r \in SellReqs : SellSelect(r)
    \/ \E r \in SellReqs : SellUpdate(r)
    \/ \E r \in SellReqs : SellInsert(r)
    \/ \E r \in SellReqs : SellRespond(r)

SpecSell == Init /\ [][NextSell]_vars

(* ------------------------------ spec ----------------------------------- *)
Next ==
    \/ Tick
    \/ RemoteChange
    \/ \E c \in Ctx : setToken(c)
    \/ \E c \in Ctx : handleSyncMessage(c)
    \/ \E c \in Ctx : handleStorageChange(c)
    \/ \E c \in Ctx : TimerTick(c)
    \/ \E c \in Ctx : InitialPull(c)
    \/ \E c \in Ctx : ExplicitPull(c)
    \/ \E c \in Ctx : checkForUpdates(c)
    \/ \E c \in Ctx : PullComplete(c)
    \/ \E c \in Ctx : LocalCommit(c)
    \/ \E c \in Ctx : destroy(c)

Spec == Init /\ [][Next]_vars

TypeOK ==
    /\ nEvents >= 0
    /\ now \in 1..(nEvents + 1)

(* ------------------------- the quiet environment ----------------------- *)
\* the stimuli of the run are used up: from here on the remote inventory does
\* not change, no local mutation is made, and every GET is answered with the
\* rows
Quiet == nEvents = MaxEvents

\* the setInterval callback, which goes on firing every SYNC_INTERVAL_MS
QuietTimerTick(c) ==
    /\ Quiet
    /\ syncInterval[c]
    /\ IF pullGuard(c) THEN UNCHANGED <<isSyncing, fetches>> ELSE pullIssue(c)
    /\ UNCHANGED <<nEvents, lastPull, lastCommit>>
    /\ UNCHANGED pushVars
    /\ UNCHANGED <<envVars, diskVars, busVars, channel,
                   syncInterval, initialPull, token, loggedOut,
                   lastSyncTimestamp, records>>

\* a GET of the tab is answered with the rows of the remote inventory
QuietPullComplete(c) ==
    /\ Quiet
    /\ \E i \in 1..Len(fetches[c]) :
          pullResume(c, i, [kind |-> "ok", body |-> server])

\* the tab whose pulls are followed; its sibling only commits mutations
Puller == {"A"}

\* before the environment is quiet anything happens to the tab; afterwards
\* its timer fires, its requests are answered and its signals are handled
NextLive ==
    \/ ~Quiet /\ Tick
    \/ ~Quiet /\ RemoteChange
    \/ ~Quiet /\ \E c \in Ctx : LocalCommit(c)
    \/ ~Quiet /\ \E c \in Puller : setToken(c)
    \/ ~Quiet /\ \E c \in Puller : TimerTick(c)
    \/ ~Quiet /\ \E c \in Puller : PullComplete(c)
    \/ ~Quiet /\ \E c \in Puller : destroy(c)
    \/ \E c \in Puller : handleSyncMessage(c)
    \/ \E c \in Puller : handleStorageChange(c)
    \/ \E c \in Puller : QuietTimerTick(c)
    \/ \E c \in Puller : QuietPullComplete(c)

\* the timer of the tab keeps firing and every request is answered in the end
SpecLive ==
    /\ Init
    /\ [][NextLive]_vars
    /\ \A c \in Puller : WF_vars(QuietTimerTick(c))
    /\ \A c \in Puller : WF_vars(QuietPullComplete(c))

(* =============================== claims ================================ *)
\* the variables a ChangeEvent, a marker write or a snapshot write changes
syncEffects == <<records, store, versionKey, lastSyncTimestamp, inbox,
                 storageEvt>>

\* a trigger of a pull in tab c: timer tick, visibility event, explicit call
Trigger(c) == TimerTick(c) \/ ExplicitPull(c) \/ checkForUpdates(c)

\* the tab's pull settles with an array of rows
PullArrives(c, i, r) == pullResume(c, i, r) /\ r.kind = "ok"

(* ------------------------------- C1 ------------------------------------ *)
\* C1 as stated: at most one fetch of the remote snapshot is in flight per
\* tab, and a trigger that arrives while isSyncing is true changes no state
\* at all.
C1_TriggerChangesNothing ==
    [][\A c \in Ctx :
          /\ Len(fetches'[c]) <= 1
          /\ (isSyncing[c] /\ Trigger(c)) => UNCHANGED vars]_vars

\* C1 amended: at most one fetch is in flight per tab; a trigger that arrives
\* while isSyncing is true sends no request and leaves isSyncing, the open
\* request, the stores, the buses and the queue as they are (a timer tick and
\* an explicit call change nothing at all; a visibility event may still raise
\* lastSyncTimestamp to the stored marker and refresh); and when the open pull
\* settles no request is open and isSyncing is false: the trigger was dropped.
C1_SingleFlight ==
    [][\A c \in Ctx :
          /\ Len(fetches'[c]) <= 1
          /\ (isSyncing[c] /\ Trigger(c)) =>
                /\ UNCHANGED <<nEvents, envVars, diskVars, busVars, pushVars,
                               channel, syncInterval, initialPull, token,
                               isSyncing, fetches, lastPull>>
                /\ \A d \in Ctx \ {c} :
                      /\ records'[d] = records[d]
                      /\ lastSyncTimestamp'[d] = lastSyncTimestamp[d]
                /\ (TimerTick(c) \/ ExplicitPull(c)) => UNCHANGED vars
          /\ PullComplete(c) => (fetches'[c] = <<>> /\ ~isSyncing'[c])]_vars

\* a tab with a pull in flight has adopted, through its visibility check, a
\* marker a sibling stored after the request was sent
C1_Witness ==
    \E c \in Ctx :
        /\ isSyncing[c] /\ Len(fetches[c]) = 1
        /\ ~fetches[c][1].mutated
        /\ versionKey > fetches[c][1].issued
        /\ lastSyncTimestamp[c] = versionKey
        /\ storageEvt[c] # <<>>


(* ------------------------------- C2 ------------------------------------ *)
\* C2: a pull whose candidate (stamped when its request was sent) is not newer
\* than the tab's version but whose records differ from the local records is
\* rejected: records, persisted snapshot, stored marker and lastSyncTimestamp
\* stay as they are and no ChangeEvent is posted.
C2_StalePullRejected ==
    [][\A c \in Ctx : \A i \in 1..Len(fetches[c]) : \A r \in GetResponses :
          (/\ PullArrives(c, i, r)
           /\ fetches[c][i].issued <= lastSyncTimestamp[c]
           /\ MapInventory(r.body) # records[c])
          => UNCHANGED syncEffects]_vars

(* ------------------------------- C3 ------------------------------------ *)
\* C3: when the tab committed a local mutation after the request of a pull was
\* sent, the pull's result does not overwrite the snapshot that holds the
\* mutation.
C3_PullAfterMutationRejected ==
    [][\A c \in Ctx : \A i \in 1..Len(fetches[c]) : \A r \in GetResponses :
          (PullArrives(c, i, r) /\ fetches[c][i].mutated)
          => (records'[c] = records[c] /\ store' = store)]_vars

C5_IdenticalPullWritesNothing ==
    [][\A c \in Ctx : \A i \in 1..Len(fetches[c]) : \A r \in GetResponses :
          (PullArrives(c, i, r) /\ MapInventory(r.body) = records[c])
          => UNCHANGED syncEffects]_vars

\* a tab whose last pull fetched what it already held, rows included
C5_Witness ==
    \E c \in Ctx :
        /\ lastPull[c] = "same" /\ records[c] # <<>>
        /\ records[c] = MapInventory(server)


(* ------------------------------- C6 ------------------------------------ *)
\* what an accepted pull of tab c does with the fetched rows, stamping version
AcceptedWith(c, r, version) ==
    /\ records'[c] = MapInventory(r.body)
    /\ store' = MapInventory(r.body)
    /\ versionKey' = version
    /\ lastSyncTimestamp'[c] = version
    /\ \A d \in Ctx \ {c} :
          inbox'[d] = IF channel[d] = "open"
                      THEN Append(inbox[d], [action |-> "inventory_sync",
                                             version |-> version])
                      ELSE inbox[d]

IdsOf(queue) == {queue[i].id : i \in 1..Len(queue)}

\* C7: when the submission of an operation fails with the network unavailable,
\* the operation is in the pending queue after the failed attempt (from where
\* the next drain sends it again).
C7_RetryKeepsOperation ==
    [][\A c \in Ctx : \A q \in requests[c] :
          PushSettle(c, q, "network")
          => q.change.id \in IdsOf(pendingChanges'[c])]_vars

(* ------------------------------- C8 ------------------------------------ *)
\* C8: a call of retryPendingChanges made in a tab whose calls the remote
\* store accepts (the credential is held throughout and no request of the tab
\* fails) has sent exactly the operations of the queue it found, in queue
\* order, each once, and the pending queue is empty when it ends.
C8_DrainUnderConnectivity ==
    \A c \in Ctx :
        LET d == lastDrain[c] IN
        (d.done /\ d.allOk /\ d.hadToken)
        => /\ d.sent = [i \in 1..Len(d.orig) |-> d.orig[i].id]
           /\ d.queueAtEnd = <<>>

\* a drain of two queued operations has ended with every request confirmed
C8_Witness ==
    \E c \in Ctx :
        LET d == lastDrain[c] IN
        /\ d.done /\ d.allOk /\ d.hadToken
        /\ Len(d.orig) = 2
        /\ IdsOf(d.orig) \subseteq confirmed[c]
        /\ pendingChanges[c] = <<>>

(* ------------------------------- C9 ------------------------------------ *)
\* C9: no operation is in flight to the remote store while an operation the
\* same tab issued earlier is still waiting in the pending queue.
C9_FifoSubmission ==
    \A c \in Ctx : \A q \in requests[c] :
        \A id \in IdsOf(pendingChanges[c]) : id > q.change.id

(* ------------------------------- C10 ----------------------------------- *)
\* C10: every operation handed to pushToServer is confirmed by the remote
\* store, in flight, in the pending queue (or in the copy a running drain
\* still holds), or its caller got null with nothing queued.
C10_NoSilentLoss ==
    \A c \in Ctx : \A id \in handed[c] :
        \/ id \in confirmed[c]
        \/ \E q \in requests[c] : q.change.id = id
        \/ id \in IdsOf(pendingChanges[c])
        \/ \E d \in drains[c] : id \in IdsOf(d.rest)
        \/ id \in reported[c]

(* ------------------------------- C11 ----------------------------------- *)
\* a request of tab c, pull or push, is answered 401 in this step
Answered401(c) ==
    \/ \E i \in 1..Len(fetches[c]) : \E r \in GetResponses :
          r.kind = "401" /\ pullResume(c, i, r)
    \/ \E q \in requests[c] : PushSettle(c, q, "401")

\* C11: a 401 answer to a pull or a push clears the tab's credential and calls
\* Auth.logout(); and a tab without credential sends no new GET, POST or PUT
\* (a login is the only step that ends that state).
C11_SessionExpiredHalts ==
    [][\A c \in Ctx :
          /\ Answered401(c) => (~token'[c] /\ loggedOut'[c])
          /\ loggedOut[c] => ~token[c]
          /\ ~token[c] =>
                /\ requests'[c] \subseteq requests[c]
                /\ Len(fetches'[c]) <= Len(fetches[c])
                /\ submitted'[c] = submitted[c]]_vars

\* after a 401 the tab was logged out, and a drain of its queue that ran
\* without credential has sent nothing
C11_Witness ==
    \E c \in Ctx :
        /\ loggedOut[c] /\ ~token[c]
        /\ lastDrain[c].done /\ lastDrain[c].orig # <<>>
        /\ lastDrain[c].sent = <<>>
        /\ requests[c] = {} /\ fetches[c] = <<>>

(* ------------------------------- C12 ----------------------------------- *)
\* C12: when the remote store rejects a submitted operation (a 4xx such as
\* the 400 for a duplicate serial), the operation is not placed in the
\* pending queue, and a caller that submitted it directly is told so.
C12_RejectedIsDropped ==
    [][\A c \in Ctx : \A q \in requests[c] :
          PushSettle(c, q, "rejected")
          => /\ q.change.id \notin IdsOf(pendingChanges'[c])
             /\ q.by = 0 => q.change.id \in reported'[c]]_vars

(* ------------------------------- C13 ----------------------------------- *)
\* how often the operation id of tab c has been sent to the remote store
Attempts(c, id) ==
    Cardinality({i \in 1..Len(submitted[c]) : submitted[c][i] = id})

\* C13: no operation is submitted to the remote store more than RetryBound
\* times.
C13_BoundedRetry ==
    \A c \in Ctx : \A id \in handed[c] : Attempts(c, id) <= RetryBound

(* ------------------------------- C14 ----------------------------------- *)
\* the ways a pull fails without a 401: 'Failed to fetch', an error status, a
\* body that is not an array
FailedKinds == {"network", "error", "malformed"}

\* C14: a pull that fails changes nothing but its own bookkeeping: records,
\* persisted snapshot, stored marker, lastSyncTimestamp, the pending queue,
\* the credential and the buses stay as they are, and isSyncing is false
\* when it returns.
C14_FailedPullMutatesNothing ==
    [][\A c \in Ctx : \A i \in 1..Len(fetches[c]) : \A r \in GetResponses :
          (r.kind \in FailedKinds /\ pullResume(c, i, r))
          => /\ UNCHANGED <<syncEffects, pushVars, token, loggedOut, channel,
                            syncInterval, initialPull, envVars>>
             /\ ~isSyncing'[c]]_vars

\* the last pull of a tab that holds records has failed and the tab is idle
\* again, credential kept
C14_Witness ==
    \E c \in Ctx :
        /\ lastPull[c] = "failed" /\ token[c] /\ ~loggedOut[c]
        /\ ~isSyncing[c] /\ fetches[c] = <<>>
        /\ records[c] # <<>> /\ store = records[c]

(* ------------------------------- C15 ----------------------------------- *)
\* every ChangeEvent and storage notification has been dispatched
Delivered == \A c \in Ctx : inbox[c] = <<>> /\ storageEvt[c] = <<>>

Signals(c) ==
    (IF inbox[c] # <<>> /\ handleSyncMessage(c)
     THEN {Head(inbox[c]).version} ELSE {})
    \cup (IF storageEvt[c] # <<>> /\ handleStorageChange(c)
          THEN {ParseIntOr0(Head(storageEvt[c]))} ELSE {})
    \cup (IF checkForUpdates(c) THEN {ParseIntOr0(versionKey)} ELSE {})

\* C16: a tab that handles a ChangeEvent, a storage notification or a
\* visibility check refreshes only when the version observed is strictly
\* greater than its lastSyncTimestamp, and then takes that version as its
\* lastSyncTimestamp (so a second signal with the same version finds it equal
\* and is ignored); a signal with an older or equal version leaves records and
\* lastSyncTimestamp as they are.
C16_RefreshOnlyWhenNewer ==
    [][\A c \in Ctx : \A version \in Signals(c) :
          IF version > lastSyncTimestamp[c]
          THEN /\ lastSyncTimestamp'[c] = version
               /\ records'[c] = store
          ELSE /\ lastSyncTimestamp'[c] = lastSyncTimestamp[c]
               /\ records'[c] = records[c]
               /\ store' = store /\ versionKey' = versionKey]_vars

\* a tab that never pulled has taken the sibling's marker and records from one
\* signal, and the ChangeEvent carrying the same marker is still to come
C16_Witness ==
    \E c \in Ctx :
        /\ lastPull[c] = "none" /\ lastCommit[c] = 0
        /\ lastSyncTimestamp[c] = versionKey /\ versionKey > 1
        /\ records[c] = store /\ store # <<>>
        /\ storageEvt[c] = <<>>
        /\ inbox[c] # <<>> /\ Head(inbox[c]).version = lastSyncTimestamp[c]

(* ------------------------------- C17 ----------------------------------- *)
\* C17: when destroy() was called while the request of a pull was in flight,
\* the result of the pull is discarded: nothing is written to the persisted
\* snapshot or the stored marker, lastSyncTimestamp stays, and no ChangeEvent
\* or storage notification goes out.
C17_TeardownDiscards ==
    [][\A c \in Ctx : \A i \in 1..Len(fetches[c]) : \A r \in GetResponses :
          (PullArrives(c, i, r) /\ fetches[c][i].stopped)
          => UNCHANGED <<store, versionKey, lastSyncTimestamp, inbox,
                         storageEvt>>]_vars

(* ------------------------------- C18 ----------------------------------- *)
\* C18: a tab whose pull completes while the stored marker is greater than the
\* tab's lastSyncTimestamp writes neither the persisted snapshot nor the
\* stored marker.
C18_NoBlindOverwrite ==
    [][\A c \in Ctx :
          (versionKey > lastSyncTimestamp[c] /\ PullComplete(c))
          => UNCHANGED diskVars]_vars

(* ------------------------------- C20 ----------------------------------- *)
\* tab c runs broadcastChange in this step: a local mutation is committed or
\* a pull is accepted
Stamps(c) ==
    \/ LocalCommit(c)
    \/ \E i \in 1..Len(fetches[c]) : \E r \in GetResponses :
          PullArrives(c, i, r) /\ Differs(records[c], MapInventory(r.body))

\* C20: the marker a tab issues in broadcastChange is strictly greater than
\* the marker in the persistent store at the moment of the call (hence than
\* every marker issued before), and becomes the tab's lastSyncTimestamp.
C20_StrictVersionClock ==
    [][\A c \in Ctx :
          Stamps(c) => /\ versionKey' > versionKey
                       /\ lastSyncTimestamp'[c] = versionKey']_vars

(* ------------------------------- C19 ----------------------------------- *)
\* C19: isSyncing is set only while a request of the tab is open, and a tab
\* that holds its credential and its interval timer when the remote store
\* has become reachable and unchanging and local mutations have ceased ends
\* up with the records of the remote store for good, whatever pulls failed
\* before.
C19_EventualResync ==
    /\ [](\A c \in Ctx : isSyncing[c] => fetches[c] # <<>>)
    /\ \A c \in Puller :
          <>(Quiet /\ token[c] /\ syncInterval[c])
          => <>[](records[c] = MapInventory(server))

\* both rows of the remote inventory were sold while the clock moved on, which
\* used up the stimuli; a pull of the tab then brought exactly these rows
C19_Witness ==
    \E c \in Puller :
        /\ Quiet /\ token[c] /\ syncInterval[c]
        /\ Len(server) = 2 /\ \A i \in 1..2 : server[i].status = "sold"
        /\ now = 2
        /\ lastPull[c] = "changed" /\ ~isSyncing[c]
        /\ records[c] = MapInventory(server)

(* ------------------------------- C21 ----------------------------------- *)
\* the create operations of tab c that are in flight or in the pending queue
UnconfirmedAdds(c) ==
    {q.change.id : q \in {x \in requests[c] : x.change.action = "add"}}
    \cup {pendingChanges[c][i].id :
             i \in {j \in 1..Len(pendingChanges[c]) :
                       pendingChanges[c][j].action = "add"}}

\* the record the tab created locally is in recs
HasNew(recs) == \E i \in 1..Len(recs) : recs[i].id = "new"

\* C21: a record added by a local mutation whose create operation is in
\* flight or in the pending queue is still in the tab's records after any
\* pull of the tab completes.
C21_UnconfirmedWriteSurvives ==
    [][\A c \in Ctx :
          (HasNew(records[c]) /\ UnconfirmedAdds(c) # {} /\ PullComplete(c))
          => HasNew(records'[c])]_vars

(* ------------------------------- C22 ----------------------------------- *)
\* in how many places operation id of tab c is held: requests in flight,
\* entries of pendingChanges, entries a suspended drain has still to send
Held(c, id) ==
    Cardinality({q \in requests[c] : q.change.id = id})
    + Cardinality({i \in 1..Len(pendingChanges[c]) :
                      pendingChanges[c][i].id = id})
    + Cardinality({x \in UNION {{<<d.k, i>> : i \in 1..Len(d.rest)} :
                                   d \in drains[c]} :
                      \E d \in drains[c] :
                         d.k = x[1] /\ d.rest[x[2]].id = id})

IsPrefix(s, t) == Len(s) <= Len(t) /\ SubSeq(t, 1, Len(s)) = s

\* C22: a drain that starts leaves an empty pending queue in the step that
\* sends its first request; no operation is ever held twice (in flight, in
\* the queue, in the copy of a suspended drain), so overlapping drains do not
\* send one entry twice; nothing that is sent is already confirmed; and apart
\* from the swap the queue only grows at its end, so what is enqueued while a
\* drain runs stays in the new queue.
C22_AtomicSwap ==
    /\ [](\A c \in Ctx : \A id \in handed[c] : Held(c, id) <= 1)
    /\ [][\A c \in Ctx :
             /\ Drain(c) => pendingChanges'[c] = <<>>
             /\ \A i \in (Len(submitted[c]) + 1)..Len(submitted'[c]) :
                   submitted'[c][i] \notin confirmed'[c]
             /\ \/ pendingChanges'[c] = <<>>
                \/ IsPrefix(pendingChanges[c], pendingChanges'[c])]_vars

\* two drains of the tab are suspended at once: the second took the operation
\* that failed and was enqueued while the first was running
C22_Witness ==
    \E c \in Pusher :
        /\ Cardinality(drains[c]) = 2
        /\ Cardinality(requests[c]) = 2
        /\ pendingChanges[c] = <<>>
        /\ \A q \in requests[c] : q.by # 0

(* ------------------------------- C23 ----------------------------------- *)
\* C23: an operation whose request was answered with 401 is not in the
\* pending queue afterwards.
C23_ExpiredNotQueued ==
    [][\A c \in Ctx : \A q \in requests[c] :
          PushSettle(c, q, "401")
          => q.change.id \notin IdsOf(pendingChanges'[c])]_vars

(* ------------------------------- C24 ----------------------------------- *)
\* the versions announced to tab d and not handled yet
Announced(d) ==
    {inbox[d][i].version : i \in 1..Len(inbox[d])}
    \cup {storageEvt[d][i] : i \in 1..Len(storageEvt[d])}

C25_NoFetchForLocalUpdate ==
    [][\A c \in Ctx :
          /\ (handleStorageChange(c)
              /\ IsNewer(ParseIntOr0(Head(storageEvt[c])),
                         lastSyncTimestamp[c]))
                => records'[c] = store /\ fetches'[c] = fetches[c]
          /\ (checkForUpdates(c)
              /\ IsNewer(ParseIntOr0(versionKey), lastSyncTimestamp[c]))
                => records'[c] = store /\ fetches'[c] = fetches[c]]_vars

(* ------------------------------- C26 ----------------------------------- *)
\* C26: after a tab has run its visibility check it holds the persisted
\* snapshot and its lastSyncTimestamp is at least the stored marker; after it
\* has handled a storage notification its lastSyncTimestamp is at least the
\* marker of the notification, and when that makes it equal to the stored
\* marker the tab holds the persisted snapshot.
C26_DurableFallback ==
    [][\A c \in Ctx :
          /\ checkForUpdates(c)
                => /\ lastSyncTimestamp'[c] >= ParseIntOr0(versionKey)
                   /\ records'[c] = store
          /\ (storageEvt[c] # <<>> /\ handleStorageChange(c))
                => /\ lastSyncTimestamp'[c] >= ParseIntOr0(Head(storageEvt[c]))
                   /\ lastSyncTimestamp'[c] = versionKey
                         => records'[c] = store]_vars

(* ------------------------------- C27 ----------------------------------- *)
\* the position of operation id in queue (0 when it is not there)
PosIn(queue, id) ==
    IF id \in IdsOf(queue)
    THEN CHOOSE i \in 1..Len(queue) : queue[i].id = id
    ELSE 0

\* the operations a drain took that are in the queue again when it ends keep
\* the order they had in the queue the drain took
RequeuedInOrder(d) ==
    \A x \in IdsOf(d.orig) : \A y \in IdsOf(d.orig) :
        (PosIn(d.queueAtEnd, x) > 0 /\ PosIn(d.queueAtEnd, y) > 0
         /\ PosIn(d.orig, x) < PosIn(d.orig, y))
        => PosIn(d.queueAtEnd, x) < PosIn(d.queueAtEnd, y)

\* C27: when a drain ends, the operations it took and enqueued again are in
\* the queue in the order they had in the drained queue, and behind every
\* entry that was enqueued while the drain was running.
C27_RequeuedAfterNew ==
    \A c \in Ctx :
        LET d == lastDrain[c] IN
        d.done
        => /\ RequeuedInOrder(d)
           /\ \A i \in 1..Len(d.queueAtEnd) : \A j \in 1..Len(d.queueAtEnd) :
                 (d.queueAtEnd[i].id \in IdsOf(d.orig)
                  /\ d.queueAtEnd[j].id \notin IdsOf(d.orig))
                 => j < i

(* ------------------------------- C28 ----------------------------------- *)
\* C28: when localStorage refuses a write while a tab applies an accepted
\* pull, the pull ends with isSyncing false, the tab's records are the rows
\* the pull brought, no ChangeEvent or storage notification goes out, the
\* stored marker and lastSyncTimestamp stay, and the guard of pullFromServer
\* lets the next timer tick of a tab that holds its credential send a GET.
C28_StoreFailureNonFatal ==
    [][\A c \in Ctx :
          PullUnsaved(c)
          => /\ ~isSyncing'[c]
             /\ records'[c] = MapInventory(server)
             /\ records'[c] # records[c]
             /\ UNCHANGED <<versionKey, lastSyncTimestamp, inbox, storageEvt>>
             /\ token[c] => ~(pullGuard(c))']_vars

\* a pull of tab c could not be saved; the tab works on the rows it brought,
\* its sibling was told nothing, and a later timer tick has sent a new GET
C28_Witness ==
    \E c \in Ctx : \E d \in Ctx \ {c} :
        /\ lastPull[c] = "unsaved"
        /\ records[c] = MapInventory(server) /\ records[c] # store
        /\ store = <<>>
        /\ versionKey = 1 /\ lastSyncTimestamp[c] = 1
        /\ inbox[d] = <<>> /\ storageEvt[d] = <<>>
        /\ isSyncing[c] /\ Len(fetches[c]) = 1

(* ------------------------------- C29 ----------------------------------- *)
\* C29: a tab on which destroy() has run (its interval is cleared) sends no
\* new GET, and handling a ChangeEvent, a storage notification or a
\* visibility event changes neither its records nor its lastSyncTimestamp.
C29_StoppedAfterDestroy ==
    [][\A c \in Ctx :
          ~syncInterval[c]
          => /\ Len(fetches'[c]) <= Len(fetches[c])
             /\ (handleSyncMessage(c) \/ handleStorageChange(c)
                 \/ checkForUpdates(c))
                   => /\ records'[c] = records[c]
                      /\ lastSyncTimestamp'[c] = lastSyncTimestamp[c]]_vars

(* ------------------------------- C30 ----------------------------------- *)
\* the requests for item id that were answered with the sold item
Succeeded(id) == {r \in SellReqs : sells[r].id = id /\ sells[r].pc = "200"}

\* the SELL transactions recorded for item id
SellTransactions(id) ==
    {i \in 1..Len(transactions) :
        transactions[i].type = "SELL" /\ transactions[i].item_id = id}

\* C30: for every item at most one sell request succeeds and at most one
\* SELL transaction is recorded.
C30_SoldAtMostOnce ==
    \A id \in SellIds :
        /\ Cardinality(Succeeded(id)) <= 1
        /\ Cardinality(SellTransactions(id)) <= 1

====
